---- MODULE Spec2Model ----
(***************************************************************************)
(* The leveled logger of package log: SlogLogger, a decorator over a       *)
(* log/slog JSON handler with a shared slog.LevelVar threshold, the no-op  *)
(* logger, and the attachment of a logger to a context.                    *)
(***************************************************************************)
EXTENDS Integers, Sequences, FiniteSets, TLC

(* ------------------------------ levels --------------------------------- *)

LevelDebug == -4
LevelTrace == -2
LevelInfo == 0
LevelWarn == 4
LevelError == 8

LevelIn == <<LevelDebug, LevelTrace, LevelInfo, LevelWarn, LevelError>>

\* GetLogLevel's initial currentLevel: below every defined level.
SentinelLevel == -10

\* The key under which slog hands the record's level to ReplaceAttr.
LevelKey == "level"
MessageKey == "msg"

\* The only value of the unexported key type logContextKey (iota = 0).
defaultLogContextKey == [type |-> "logContextKey", v |-> 0]

(* ------------------------------ bounds --------------------------------- *)

\* Records handed to the handler before emission calls stop being made.
MaxRecords == 2
\* *SlogLogger values (made by New or clone) alive at once.
MaxHandles == 3
\* Contexts derived with context.WithValue.
MaxCtx == 3

\* The goroutine whose calls are followed step by step.  SetLevel is one
\* atomic store, so the SetLevel calls of any number of other goroutines
\* are steps that may fall between any two steps of this one.
Threads == {"g1"}

\* Thresholds passed to New and SetLevel: below Debug, every named level,
\* a value between two named levels, and above Error.
Thresholds == {-5, -4, -3, -2, 0, 4, 8, 9}

\* Contexts passed to InfoContext and Log.
Ctxs == {"nil", "background"}

Msgs == {"m"}

(* ----------------------------- formatting ------------------------------ *)

Digit(d) ==
    CASE d = 0 -> "0" [] d = 1 -> "1" [] d = 2 -> "2" [] d = 3 -> "3"
      [] d = 4 -> "4" [] d = 5 -> "5" [] d = 6 -> "6" [] d = 7 -> "7"
      [] d = 8 -> "8" [] OTHER -> "9"

RECURSIVE Itoa(_)
Itoa(n) == IF n < 10 THEN Digit(n) ELSE Itoa(n \div 10) \o Digit(n % 10)

\* fmt's %+d.
SignedItoa(n) == IF n < 0 THEN "-" \o Itoa(-n) ELSE "+" \o Itoa(n)

\* slog.Level.String: the name of the nearest named level at or below,
\* with the signed offset from it.
LevelString(l) ==
    LET str(base, val) == IF val = 0 THEN base ELSE base \o SignedItoa(val)
    IN  CASE l < LevelInfo  -> str("DEBUG", l - LevelDebug)
          [] l < LevelWarn  -> str("INFO", l - LevelInfo)
          [] l < LevelError -> str("WARN", l - LevelWarn)
          [] OTHER          -> str("ERROR", l - LevelError)

\* A format string is its sequence of literal pieces and verbs.
Formats == {<<"n=", "%d">>, <<"done">>}
FormatArgs == {<<>>, <<7>>}

\* fmt.Sprintf over %d verbs: a verb without an operand prints
\* %!d(MISSING), operands left over print %!(EXTRA ...).
RECURSIVE Sprintf(_, _)
Sprintf(format, a) ==
    IF format = <<>>
    THEN IF a = <<>> THEN "" ELSE "%!(EXTRA int=" \o Itoa(Head(a)) \o ")"
    ELSE IF Head(format) = "%d"
         THEN IF a = <<>>
              THEN "%!d(MISSING)" \o Sprintf(Tail(format), a)
              ELSE Itoa(Head(a)) \o Sprintf(Tail(format), Tail(a))
         ELSE Head(format) \o Sprintf(Tail(format), a)

(* ---------------------------- attributes ------------------------------- *)

\* A slog.Attr: its key, the kind of its value, and the value (lv for a
\* slog.Level or an integer, s for a string).
Attr(key, kind, lv, s) == [key |-> key, kind |-> kind, lv |-> lv, s |-> s]

PanicAttr == Attr("", "PANIC", 0, "")

\* The args of an emission call, as the attributes Record.Add makes of them.
ArgLists ==
    { <<>>,
      <<Attr(LevelKey, "Level", LevelTrace, "")>>,
      <<Attr(LevelKey, "Int64", 1, "")>> }

ReplaceAttrNoTrace(a) ==
    IF a.key = LevelKey
    THEN IF a.kind # "Level" THEN PanicAttr
         ELSE Attr(a.key, "String", 0, LevelString(a.lv))
    ELSE a

\* HandlerOptions.ReplaceAttr of New: an attribute keyed "level" has its
\* value asserted to be a slog.Level (a failed assertion panics) and
\* replaced by its label, "TRACE" for LevelTrace.
ReplaceAttr(a) ==
    IF a.key = LevelKey
    THEN IF a.kind # "Level" THEN PanicAttr
         ELSE LET levelLabel == IF a.lv = LevelTrace THEN "TRACE"
                                ELSE LevelString(a.lv)
              IN  Attr(a.key, "String", 0, levelLabel)
    ELSE a

\* The JSON handler's line for a record: the built-in level and message
\* attributes, then the record's own, each passed through ReplaceAttr
\* (which returns the built-in time and source attributes as they are).
SerializedLine(level, msg, attrs) ==
    LET built == <<Attr(LevelKey, "Level", level, ""),
                   Attr(MessageKey, "String", 0, msg)>> \o attrs
    IN  [i \in DOMAIN built |-> ReplaceAttr(built[i])]

Panics(line) == \E i \in DOMAIN line : line[i].kind = "PANIC"

(* ------------------------------- state --------------------------------- *)

VARIABLES
    levelVar,   \* the slog.LevelVar objects: levelVar[a] is the value of a
    slogs,      \* the *slog.Logger objects: slogs[l] is the LevelVar its
                \* handler's options point to
    handles,    \* the SlogLogger structs: [l, lvl]
    th,         \* each goroutine's position and frame
    handled,    \* the handler's sink: the number of records passed to
                \* Handle, whether a write has failed, and the last record
    ctxs        \* the contexts made by context.WithValue

vars == <<levelVar, slogs, handles, th, handled, ctxs>>

\* A goroutine outside any call.
Idle ==
    [pc |-> "idle", op |-> "", h |-> 0, level |-> 0, ctx |-> "",
     msg |-> "", args |-> <<>>, T |-> 0, T2 |-> 0, i |-> 0,
     lv |-> 0, ok |-> FALSE, same |-> TRUE, disp |-> 0, fmt |-> 0,
     err |-> FALSE]

NoRecord == [level |-> 0, ctx |-> "", line |-> <<>>, out |-> "none"]

\* A panic that no one recovers ends the process.
Crashed == \E t \in Threads : th[t].pc = "panicked"

\* atomic.Int64.Load of a LevelVar.
LevelVarLevel(a) == levelVar[a]

\* atomic.Int64.Store of a LevelVar.
LevelVarSet(a, level) == [levelVar EXCEPT ![a] = level]

HandlerEnabledStrict(l, level) == level > LevelVarLevel(slogs[l])

\* slog.Logger.Enabled: the handler's level >= minLevel, minLevel read
\* from the LevelVar of its options.
HandlerEnabled(l, level) == level >= LevelVarLevel(slogs[l])

\* The threshold a gating check on handle h reads.
GateThreshold(h) == LevelVarLevel(slogs[handles[h].l])

\* Handler.Handle's effect on the sink.
Dispatch(level, ctx, line, out) ==
    [n |-> handled.n + 1,
     failed |-> handled.failed \/ out = "err",
     last |-> [level |-> level, ctx |-> ctx, line |-> line, out |-> out]]

(* ------------------------------ actions -------------------------------- *)

Init ==
    /\ \E level \in Thresholds : levelVar = <<level>>
    /\ slogs = <<1>>
    /\ handles = <<[l |-> 1, lvl |-> 1]>>
    /\ th = [t \in Threads |-> Idle]
    /\ handled = [n |-> 0, failed |-> FALSE, last |-> NoRecord]
    /\ ctxs = <<>>

\* New(level): a fresh LevelVar, a slog.Logger whose handler reads it, and
\* the struct holding both.
New(level) ==
    /\ ~Crashed
    /\ Len(handles) < MaxHandles
    /\ levelVar' = Append(levelVar, level)
    /\ slogs' = Append(slogs, Len(levelVar) + 1)
    /\ handles' = Append(handles, [l |-> Len(slogs) + 1, lvl |-> Len(levelVar) + 1])
    /\ UNCHANGED <<th, handled, ctxs>>

SetLevel(h, level) ==
    /\ ~Crashed
    /\ levelVar' = LevelVarSet(handles[h].lvl, level)
    /\ UNCHANGED <<slogs, handles, th, handled, ctxs>>

cloneDeep(h) ==
    [handles |-> Append(handles, [l |-> handles[h].l, lvl |-> Len(levelVar) + 1]),
     levelVar |-> Append(levelVar, levelVar[handles[h].lvl])]

\* c := *l; return &c: a new struct with the same two pointers.
cloneStruct(h) ==
    [handles |-> Append(handles, handles[h]), levelVar |-> levelVar]

clone(h) ==
    /\ ~Crashed
    /\ Len(handles) < MaxHandles
    /\ handles' = cloneStruct(h).handles
    /\ levelVar' = cloneStruct(h).levelVar
    /\ UNCHANGED <<slogs, th, handled, ctxs>>

\* log, up to the gate: a disabled level returns at once, an enabled one
\* goes on to build and dispatch the record.  nfmt counts the fmt.Sprintf
\* calls the public method made before calling Log, T is the threshold the
\* gate met, and disp counts the records the call has handed to Handle.
log(t, op, h, ctx, level, msg, args, nfmt) ==
    /\ ~Crashed
    /\ th[t].pc = "idle"
    /\ handled.n < MaxRecords
    /\ LET f == [Idle EXCEPT !.op = op, !.h = h, !.level = level,
                             !.T = GateThreshold(h), !.fmt = nfmt]
       IN  IF ~HandlerEnabled(handles[h].l, level)
           THEN th' = [th EXCEPT ![t] = [f EXCEPT !.pc = "ret"]]
           ELSE th' = [th EXCEPT ![t] =
                          [f EXCEPT !.pc = "handle", !.ctx = ctx,
                                    !.msg = msg, !.args = args]]
    /\ UNCHANGED <<levelVar, slogs, handles, handled, ctxs>>

afterHandleFatal(out) == IF out = "err" THEN "panicked" ELSE "ret"

\* _ = l.l.Handler().Handle(ctx, r): whatever Handle returns, log returns.
afterHandle(out) == "ret"

\* log, from slog.NewRecord to the handler's Handle; the write of the line
\* may fail, and Handle then returns the error.
logHandle(t) ==
    /\ ~Crashed
    /\ th[t].pc = "handle"
    /\ LET f == th[t]
           ctx == IF f.ctx = "nil" THEN "background" ELSE f.ctx
           line == SerializedLine(f.level, f.msg, f.args)
           g == [f EXCEPT !.disp = handled'.n - handled.n,
                          !.ctx = "", !.msg = "", !.args = <<>>]
       IN  IF Panics(line)
           THEN /\ handled' = Dispatch(f.level, ctx, <<>>, "panic")
                /\ th' = [th EXCEPT ![t] = [g EXCEPT !.pc = "panicked"]]
           ELSE \E out \in {"ok", "err"} :
                /\ handled' = Dispatch(f.level, ctx, line, out)
                /\ th' = [th EXCEPT ![t] =
                            [g EXCEPT !.pc = afterHandle(out),
                                      !.err = (out = "err")]]
    /\ UNCHANGED <<levelVar, slogs, handles, ctxs>>

\* The public emission methods.  Each calls Log, which calls log; op is
\* the method the caller entered.
Log(t, h, ctx, level, msg, args) ==
    log(t, "Log", h, ctx, level, msg, args, 0)

Info(t, h, msg, args) ==
    log(t, "Info", h, "background", LevelInfo, msg, args, 0)

\* The message is formatted before Log is called, and has no attributes.
Infof(t, h, format, a) ==
    log(t, "Infof", h, "background", LevelInfo, Sprintf(format, a), <<>>, 1)

InfoContext(t, h, ctx, msg, args) ==
    log(t, "InfoContext", h, ctx, LevelInfo, msg, args, 0)

Trace(t, h, msg, args) ==
    log(t, "Trace", h, "background", LevelTrace, msg, args, 0)

Warn(t, h, msg, args) ==
    log(t, "Warn", h, "background", LevelWarn, msg, args, 0)

Error(t, h, msg, args) ==
    log(t, "Error", h, "background", LevelError, msg, args, 0)

LogOps == {"Log", "Info", "Infof", "InfoContext", "Trace", "Warn", "Error"}

\* Enabled, its argument: l.lvl.Level() is read before the handler is asked.
Enabled(t, h) ==
    /\ ~Crashed
    /\ th[t].pc = "idle"
    /\ th' = [th EXCEPT ![t] =
                [Idle EXCEPT !.pc = "enabled", !.op = "Enabled", !.h = h,
                             !.T = LevelVarLevel(handles[h].lvl)]]
    /\ UNCHANGED <<levelVar, slogs, handles, handled, ctxs>>

EnabledProbeInfo(f) == LevelInfo

\* The level Enabled asks the handler about: the threshold it has read.
EnabledProbe(f) == f.T

\* Enabled, the handler's answer: the level read is compared with the
\* threshold as it is now.
enabledCheck(t) ==
    /\ ~Crashed
    /\ th[t].pc = "enabled"
    /\ LET f == th[t]
       IN  th' = [th EXCEPT ![t] =
                    [f EXCEPT !.pc = "ret", !.T2 = GateThreshold(f.h),
                              !.ok = HandlerEnabled(handles[f.h].l, EnabledProbe(f))]]
    /\ UNCHANGED <<levelVar, slogs, handles, handled, ctxs>>

\* GetLogLevel, up to its loop.
GetLogLevel(t, h) ==
    /\ ~Crashed
    /\ th[t].pc = "idle"
    /\ th' = [th EXCEPT ![t] =
                [Idle EXCEPT !.pc = "probe", !.op = "GetLogLevel", !.h = h,
                             !.i = 1, !.lv = SentinelLevel]]
    /\ UNCHANGED <<levelVar, slogs, handles, handled, ctxs>>

LevelInSwapped == <<LevelTrace, LevelDebug, LevelInfo, LevelWarn, LevelError>>

\* The levels GetLogLevel probes, in order.
ProbeOrder == LevelIn

\* GetLogLevel, one turn of its loop: the handler is asked about the i-th
\* level; the first enabled one is returned, and the sentinel if none is.
\* T is the threshold the first probe met, and same whether every later
\* probe met it too.
getLogLevelProbe(t) ==
    /\ ~Crashed
    /\ th[t].pc = "probe"
    /\ LET f == th[t]
           cur == GateThreshold(f.h)
           g == IF f.i = 1 THEN [f EXCEPT !.T = cur]
                ELSE [f EXCEPT !.same = f.same /\ cur = f.T]
       IN  IF HandlerEnabled(handles[f.h].l, ProbeOrder[f.i])
           THEN th' = [th EXCEPT ![t] =
                          [g EXCEPT !.pc = "ret", !.lv = ProbeOrder[f.i]]]
           ELSE IF f.i = Len(ProbeOrder)
                THEN th' = [th EXCEPT ![t] = [g EXCEPT !.pc = "ret"]]
                ELSE th' = [th EXCEPT ![t] = [g EXCEPT !.i = f.i + 1]]
    /\ UNCHANGED <<levelVar, slogs, handles, handled, ctxs>>

(* --------------------------- the no-op logger -------------------------- *)

noopBodyLogs(level, msg) ==
    Dispatch(level, "background", SerializedLine(level, msg, <<>>), "ok")

\* The body of noopInfoLogger's Info, Infof and Infow: empty.
noopBody(level, msg) == handled

NoopOps == {"noop.Enabled", "noop.Info", "noop.Infof", "noop.Infow"}

noopCall(t, op, msg) ==
    /\ ~Crashed
    /\ th[t].pc = "idle"
    /\ handled' = noopBody(LevelInfo, msg)
    /\ th' = [th EXCEPT ![t] = [Idle EXCEPT !.pc = "ret", !.op = op]]
    /\ UNCHANGED <<levelVar, slogs, handles, ctxs>>

\* return false
NoopEnabled(t) ==
    /\ ~Crashed
    /\ th[t].pc = "idle"
    /\ th' = [th EXCEPT ![t] =
                [Idle EXCEPT !.pc = "ret", !.op = "noop.Enabled", !.ok = FALSE]]
    /\ UNCHANGED <<levelVar, slogs, handles, handled, ctxs>>

NoopInfo(t, ctx, msg, args) == noopCall(t, "noop.Info", msg)

NoopInfof(t, ctx, format, a) == noopCall(t, "noop.Infof", "")

NoopInfow(t, ctx, msg, args) == noopCall(t, "noop.Infow", msg)

\* The call returns to its caller.
Return(t) ==
    /\ ~Crashed
    /\ th[t].pc = "ret"
    /\ th' = [th EXCEPT ![t] = Idle]
    /\ UNCHANGED <<levelVar, slogs, handles, handled, ctxs>>

(* ------------------------------ contexts ------------------------------- *)

\* ctxs[c] is the valueCtx c (node), with who made it (by) and, when
\* WithContext did, the logger it was called on (recv).

\* A key of the caller's own: another type with the same underlying value.
callerKey == [type |-> "int", v |-> 0]

\* context.Context.Value: the nearest enclosing value stored under key;
\* context 0 is context.Background(), which holds none (handle 0 is nil).
\* Keys are equal when their types and their values are.
RECURSIVE Value(_, _)
Value(c, key) ==
    IF c = 0 THEN 0
    ELSE IF ctxs[c].node.key = key THEN ctxs[c].node.val
    ELSE Value(ctxs[c].node.parent, key)

withContextCallerKey(h, parent) ==
    [parent |-> parent, key |-> callerKey, val |-> h]

\* context.WithValue(ctx, defaultLogContextKey, l): a valueCtx.
withContext(h, parent) ==
    [parent |-> parent, key |-> defaultLogContextKey, val |-> h]

WithContext(h, parent) ==
    /\ ~Crashed
    /\ Len(ctxs) < MaxCtx
    /\ ctxs' = Append(ctxs, [node |-> withContext(h, parent),
                             by |-> "WithContext", recv |-> h])
    /\ UNCHANGED <<levelVar, slogs, handles, th, handled>>

\* A caller's own context.WithValue under its own key.
CallerWithValue(parent, val) ==
    /\ ~Crashed
    /\ Len(ctxs) < MaxCtx
    /\ ctxs' = Append(ctxs, [node |-> [parent |-> parent, key |-> callerKey,
                                       val |-> val],
                             by |-> "caller", recv |-> 0])
    /\ UNCHANGED <<levelVar, slogs, handles, th, handled>>

(* --------------------------- specifications ---------------------------- *)

\* Emission on one logger, with SetLevel calls falling anywhere.
Next ==
    \/ \E level \in Thresholds : SetLevel(1, level)
    \/ \E t \in Threads, msg \in Msgs, args \in ArgLists :
          \/ \E ctx \in Ctxs, i \in DOMAIN LevelIn : Log(t, 1, ctx, LevelIn[i], msg, args)
          \/ Info(t, 1, msg, args)
          \/ \E ctx \in Ctxs : InfoContext(t, 1, ctx, msg, args)
          \/ Trace(t, 1, msg, args)
          \/ Warn(t, 1, msg, args)
          \/ Error(t, 1, msg, args)
          \/ NoopInfo(t, "background", msg, args)
          \/ NoopInfow(t, "background", msg, args)
    \/ \E t \in Threads, format \in Formats, a \in FormatArgs :
          \/ Infof(t, 1, format, a)
          \/ NoopInfof(t, "background", format, a)
    \/ \E t \in Threads : NoopEnabled(t) \/ logHandle(t) \/ Return(t)

Spec == Init /\ [][Next]_vars

\* The threshold and its introspection.
NextLevel ==
    \/ \E level \in Thresholds : SetLevel(1, level)
    \/ \E t \in Threads :
          \/ Enabled(t, 1)
          \/ enabledCheck(t)
          \/ GetLogLevel(t, 1)
          \/ getLogLevelProbe(t)
          \/ Return(t)

SpecLevel == Init /\ [][NextLevel]_vars

\* Thresholds of the runs with several loggers; the first logger is made
\* by New(LevelInfo).
FewThresholds == {LevelDebug, LevelWarn, 9}

\* Several loggers and clones of them.
NextClone ==
    \/ New(LevelWarn)
    \/ \E h \in DOMAIN handles : clone(h)
    \/ \E h \in DOMAIN handles, level \in FewThresholds : SetLevel(h, level)
    \/ \E t \in Threads, h \in DOMAIN handles : Warn(t, h, "m", <<>>)
    \/ \E t \in Threads : logHandle(t) \/ Return(t)

InitClone == Init /\ levelVar[1] = LevelInfo

SpecClone == InitClone /\ [][NextClone]_vars

\* Loggers attached to contexts.
NextCtx ==
    \/ New(LevelWarn)
    \/ \E h \in DOMAIN handles : clone(h)
    \/ \E h \in DOMAIN handles, parent \in 0 .. Len(ctxs) : WithContext(h, parent)
    \/ \E parent \in 0 .. Len(ctxs), val \in {7} : CallerWithValue(parent, val)

SpecCtx == InitClone /\ [][NextCtx]_vars

(* ------------------------------- claims -------------------------------- *)

\* The levels LevelIn names.
Named == {LevelIn[i] : i \in DOMAIN LevelIn}

\* The lowest named level at or above T, and the sentinel above Error.
LowestNamed(T) ==
    IF T > LevelError THEN SentinelLevel
    ELSE CHOOSE L \in Named : L >= T /\ \A M \in Named : M >= T => L <= M

\* The level each convenience method logs at.
OpLevel(op) ==
    CASE op \in {"Info", "Infof", "InfoContext"} -> LevelInfo
      [] op = "Trace" -> LevelTrace
      [] op = "Warn" -> LevelWarn
      [] OTHER -> LevelError

\* C1: an emission call at level L that met threshold T at its gate hands
\* exactly one record to the handler if L >= T and none if L < T; Info,
\* Infof and InfoContext log at Info, Trace at Trace, Warn at Warn and
\* Error at Error.
C1_DispatchedIffAtLeastThreshold ==
    \A t \in Threads :
        th[t].op \in LogOps =>
            /\ th[t].op # "Log" => th[t].level = OpLevel(th[t].op)
            /\ th[t].pc = "ret" =>
                   th[t].disp = IF th[t].level >= th[t].T THEN 1 ELSE 0
            /\ th[t].pc = "handle" => th[t].level >= th[t].T /\ th[t].disp = 0
            /\ th[t].pc = "panicked" => th[t].level >= th[t].T /\ th[t].disp = 1

\* A Log call at exactly the threshold has returned, one record dispatched.
C1_Witness ==
    \E t \in Threads :
        /\ th[t].pc = "ret" /\ th[t].op = "Log"
        /\ th[t].level = th[t].T /\ th[t].disp = 1 /\ handled.n >= 1

\* C2: a GetLogLevel all of whose probes met the threshold T (as when it
\* immediately follows SetLevel(T) or New(T)) returns the lowest named
\* level >= T, and the sentinel -10 when T is above Error.
C2_GetLogLevelLowestNamed ==
    \A t \in Threads :
        (th[t].pc = "ret" /\ th[t].op = "GetLogLevel" /\ th[t].same) =>
            th[t].lv = LowestNamed(th[t].T)

\* GetLogLevel has returned Trace for a threshold between Debug and Trace.
C2_Witness ==
    \E t \in Threads :
        /\ th[t].pc = "ret" /\ th[t].op = "GetLogLevel" /\ th[t].same
        /\ th[t].T = -3 /\ th[t].lv = LevelTrace

\* C3: an emission call whose level is disabled returns having dispatched
\* no record and done no formatting.
C3_DisabledCallDoesNoWork ==
    \A t \in Threads :
        (th[t].pc = "ret" /\ th[t].op \in LogOps /\ th[t].level < th[t].T) =>
            th[t].disp = 0 /\ th[t].fmt = 0

\* C4: SetLevel(T) on a handle makes T the threshold of the gate of every
\* handle that shares its threshold reference, a clone included, and
\* leaves the gates of the others and the records already dispatched as
\* they were; handles sharing the reference always gate alike; and only
\* SetLevel changes a threshold.
C4_SetLevelSharedByAliases ==
    [][ /\ \A h \in DOMAIN handles, T \in FewThresholds :
               SetLevel(h, T) =>
                   /\ \A g \in DOMAIN handles :
                          IF handles[g].lvl = handles[h].lvl
                          THEN GateThreshold(g)' = T
                          ELSE GateThreshold(g)' = GateThreshold(g)
                   /\ handled' = handled
        /\ \A h, g \in DOMAIN handles' :
               handles'[h].lvl = handles'[g].lvl => GateThreshold(h)' = GateThreshold(g)'
        /\ (\E a \in DOMAIN levelVar : levelVar'[a] # levelVar[a]) =>
               \E h \in DOMAIN handles, T \in FewThresholds : SetLevel(h, T)
      ]_vars

\* A clone of the first logger gates at Warn, which only a SetLevel set,
\* beside a logger with another threshold, after a record was dispatched.
C4_Witness ==
    /\ \E g \in DOMAIN handles :
           g # 1 /\ handles[g] = handles[1] /\ GateThreshold(g) = LevelWarn
    /\ \E k \in DOMAIN handles :
           handles[k].lvl # handles[1].lvl /\ GateThreshold(k) # LevelWarn
    /\ handled.n >= 1

\* C5: no execution panics, and every gating check meets a threshold that
\* was passed to New or to SetLevel.
C5_NoPanicNoTornThreshold ==
    /\ ~Crashed
    /\ \A t \in Threads :
           th[t].op \in LogOps \cup {"Enabled", "GetLogLevel"} =>
               th[t].T \in Thresholds \cup {Idle.T}

\* C6: a call of a method of the no-op logger changes nothing but the
\* caller's position, and its Enabled returns false.
C6_NoopHasNoEffect ==
    [][ \A t \in Threads :
            (th[t].pc = "idle" /\ th'[t].op \in NoopOps) =>
                /\ UNCHANGED <<levelVar, slogs, handles, handled, ctxs>>
                /\ th'[t].pc = "ret"
                /\ th'[t].op = "noop.Enabled" => th'[t].ok = FALSE
      ]_vars

\* The no-op Info has returned after records went through the real logger.
C6_Witness ==
    \E t \in Threads :
        th[t].pc = "ret" /\ th[t].op = "noop.Info" /\ handled.n = MaxRecords

\* C7: in the context WithContext returns, the logger key yields the very
\* logger WithContext was called on, also over a context that already
\* carries a logger; WithContext changes no context and no logger.
C7_WithContextLookup ==
    [][ /\ \A c \in DOMAIN ctxs' :
               ctxs'[c].by = "WithContext" =>
                   Value(c, defaultLogContextKey)' = ctxs'[c].recv
        /\ \A c \in DOMAIN ctxs : ctxs'[c] = ctxs[c]
        /\ Len(ctxs') > Len(ctxs) => UNCHANGED <<levelVar, slogs, handles>>
      ]_vars

\* A second logger is attached over a caller's value over a first logger.
C7_Witness ==
    \E c \in DOMAIN ctxs :
        LET p == ctxs[c].node.parent
        IN  /\ ctxs[c].by = "WithContext" /\ p # 0
            /\ ctxs[p].by = "caller" /\ ctxs[p].node.parent # 0
            /\ ctxs[ctxs[p].node.parent].by = "WithContext"
            /\ Value(p, defaultLogContextKey) # ctxs[c].recv
            /\ Value(c, defaultLogContextKey) = ctxs[c].recv

\* The label a named level is to be written with.
Label(level) ==
    CASE level = LevelDebug -> "DEBUG"
      [] level = LevelTrace -> "TRACE"
      [] level = LevelInfo -> "INFO"
      [] level = LevelWarn -> "WARN"
      [] OTHER -> "ERROR"

\* C8: the line of every record is written with the level label TRACE for
\* Trace and DEBUG, INFO, WARN, ERROR for the other named levels.
C8_LevelLabels ==
    handled.last.out \in {"ok", "err"} =>
        /\ handled.last.line[1].key = LevelKey
        /\ handled.last.line[1].s = Label(handled.last.level)

\* A Trace record has been written.
C8_Witness ==
    /\ handled.last.out = "ok" /\ handled.last.level = LevelTrace
    /\ handled.last.line[1].s = "TRACE"

\* C9: when Handle returns an error the call returns to its caller, the
\* threshold and the logger are as before, and calls made after a failure
\* are gated on the threshold and dispatch one record when enabled.
C9_HandleErrorSwallowed ==
    [][ \A t \in Threads :
            /\ (th[t].pc = "handle" /\ handled'.n = handled.n + 1
                    /\ handled'.last.out = "err") =>
                   /\ th'[t].pc = "ret" /\ th'[t].err
                   /\ UNCHANGED <<levelVar, slogs, handles>>
            /\ (handled.failed /\ th[t].pc = "idle" /\ th'[t].op \in LogOps) =>
                   /\ th'[t].pc = IF th'[t].level >= GateThreshold(th'[t].h)
                                  THEN "handle" ELSE "ret"
                   /\ handled' = handled
            /\ (handled.failed /\ th[t].pc = "handle" /\ th'[t] # th[t]) =>
                   handled'.n = handled.n + 1
      ]_vars

\* After a failed write a later call has dispatched its record and returned.
C9_Witness ==
    /\ handled.failed /\ handled.last.out = "ok"
    /\ \E t \in Threads : th[t].pc = "ret" /\ th[t].disp = 1

\* C10, as stated: every Enabled call returns true.
C10_EnabledAlwaysTrue ==
    \A t \in Threads :
        (th[t].pc = "ret" /\ th[t].op = "Enabled") => th[t].ok

\* C10, amended: Enabled returns false exactly when the threshold the
\* handler compares with (T2) is above the one Enabled read first (T), that
\* is when a SetLevel raised it between the two reads; otherwise it returns
\* true, whatever the threshold.
C10_EnabledTrueUnlessRaised ==
    \A t \in Threads :
        (th[t].pc = "ret" /\ th[t].op = "Enabled") =>
            (th[t].ok <=> ~(th[t].T2 > th[t].T))

\* Enabled has returned true at a threshold above Error, where GetLogLevel
\* returns the sentinel.
C10_Witness ==
    \E t \in Threads :
        /\ th[t].pc = "ret" /\ th[t].op = "Enabled" /\ th[t].ok
        /\ th[t].T > LevelError /\ th[t].T2 = th[t].T
        /\ LowestNamed(th[t].T) = SentinelLevel

====
